---- MODULE Spec2Model ----
(***************************************************************************)
(* Model of the claude-agent service: the Settings singleton               *)
(* (src/src/agent/config.py), the AgentClient gateway                      *)
(* (src/src/agent/client.py) and the /query handler (src/main.py).         *)
(*                                                                         *)
(* Python values are represented as follows.                               *)
(*   Optional[T]      <<>> for None, <<x>> for a present value x           *)
(*   str              a TLA+ string; a numeric environment value is kept   *)
(*                    as a sequence of one-character strings so that       *)
(*                    int() can be computed digit by digit                 *)
(*   an SDK message   a record; hasattr(m, "f") is "f" \in DOMAIN m        *)
(*   an exception     [kind |-> class name, msg |-> str(e)]                *)
(***************************************************************************)
EXTENDS Integers, Sequences, FiniteSets, TLC

VARIABLES
    env,            \* os.environ: the variables the Settings fields read
    g_settings,     \* config._settings, the module-level singleton (Optional)
    loads,          \* number of Settings.load() calls made so far
    pc,             \* per call: "idle", "streaming" (suspended in async for), "done"
    req,            \* per call: the request / constructor arguments
    client,         \* per call: the AgentClient instance (Optional)
    options,        \* per call: the ClaudeCodeOptions handed to sdk_query (Optional)
    sessions,       \* per call: number of sdk_query invocations
    sent,           \* per call: the events the runtime has produced on its stream
    fault,          \* per call: the failure the runtime raised on its stream (Optional)
    messages,       \* per call: the local list `messages` of AgentClient.query
    h_settings,     \* per call: the handler's local `settings` (Optional)
    outcome,        \* per call: how the call ended (Optional): a return or a raise
    response        \* per call: what the /query handler answered (Optional)

vars == <<env, g_settings, loads, pc, req, client, options, sessions, sent,
          fault, messages, h_settings, outcome, response>>

-----------------------------------------------------------------------------
(* Bounds of the model.                                                    *)

MaxStream == 3      \* longest event stream of the single-call specification
MaxStreamConc == 2  \* longest event stream of the concurrent specification
MaxStreamConfig == 1 \* longest event stream of the configuration specifications
NumTasks == 2       \* number of calls of the concurrent and singleton specifications

-----------------------------------------------------------------------------
(* Python values.                                                          *)

None == <<>>
Some(x) == <<x>>

Ok(v) == [ok |-> TRUE, v |-> v]
Raised(e) == [ok |-> FALSE, e |-> e]

\* Truthiness of an Optional[str] / Optional[int], as the `or` operator sees it.
TruthyStr(o) == o # None /\ o[1] # ""
TruthyInt(o) == o # None /\ o[1] # 0

\* "".join(chars)
RECURSIVE Join(_)
Join(chars) == IF chars = <<>> THEN "" ELSE Head(chars) \o Join(Tail(chars))

Digits == <<"0", "1", "2", "3", "4", "5", "6", "7", "8", "9">>
IsDigit(c) == \E i \in 1..Len(Digits) : Digits[i] = c
DigitValue(c) == (CHOOSE i \in 1..Len(Digits) : Digits[i] = c) - 1

RECURSIVE DigitsValue(_, _)
DigitsValue(chars, acc) ==
    IF chars = <<>> THEN acc
    ELSE DigitsValue(Tail(chars), acc * 10 + DigitValue(Head(chars)))

\* int(s) for a str s: an optional sign followed by at least one digit;
\* anything else raises ValueError.
IntOfStr(chars) ==
    LET signed == chars # <<>> /\ Head(chars) \in {"-", "+"}
        body == IF signed THEN Tail(chars) ELSE chars
    IN  IF body # <<>> /\ \A i \in 1..Len(body) : IsDigit(body[i])
        THEN Ok(IF signed /\ Head(chars) = "-"
                THEN 0 - DigitsValue(body, 0) ELSE DigitsValue(body, 0))
        ELSE Raised([kind |-> "ValueError",
                     msg |-> "invalid literal for int() with base 10: '"
                             \o Join(chars) \o "'"])

-----------------------------------------------------------------------------
(* config.py: Settings and get_settings.                                   *)

DefaultModel == "claude-sonnet-4-5-20250929"
DefaultMaxTurns == <<"2", "0">>
DefaultPort == <<"8", "0", "8", "0">>
DefaultHost == "0.0.0.0"
DefaultAllowedTools == <<"Read", "Write", "Edit", "Glob", "Grep">>
DefaultDisallowedTools == <<"Bash">>

\* os.environ.get(name, default)
EnvGet(e, name, default) == IF e[name] = None THEN default ELSE e[name][1]

\* Settings.load() / Settings(): the default factories run in field order;
\* the first int() that fails aborts the construction.
SettingsLoad(e) ==
    LET mt == IntOfStr(EnvGet(e, "MAX_TURNS", DefaultMaxTurns))
        port == IntOfStr(EnvGet(e, "PORT", DefaultPort))
    IN  IF ~mt.ok THEN mt
        ELSE IF ~port.ok THEN port
        ELSE Ok([anthropic_api_key |-> EnvGet(e, "ANTHROPIC_API_KEY", ""),
                 model |-> EnvGet(e, "CLAUDE_MODEL", DefaultModel),
                 max_turns |-> mt.v,
                 port |-> port.v,
                 host |-> EnvGet(e, "HOST", DefaultHost),
                 allowed_tools |-> DefaultAllowedTools,
                 disallowed_tools |-> DefaultDisallowedTools])

\* A faulty get_settings: the cache is ignored and the environment is read
\* again on every call.
get_settings_uncached(cur, e, n) ==
    LET r == SettingsLoad(e)
    IN  IF r.ok
        THEN LET inst == [id |-> n + 1] @@ r.v
             IN  [ret |-> Ok(inst), g |-> Some(inst), n |-> n + 1]
        ELSE [ret |-> r, g |-> cur, n |-> n + 1]

\* get_settings(): `cur` is the singleton before the call and `n` the number
\* of Settings.load() calls made before it.  ret is the Settings returned
\* (tagged with the identity of the instance) or the exception raised, g the
\* singleton and n the number of load() calls after the call.
get_settings(cur, e, n) ==
    IF cur = None
    THEN LET r == SettingsLoad(e)
         IN  IF r.ok
             THEN LET inst == [id |-> n + 1] @@ r.v
                  IN  [ret |-> Ok(inst), g |-> Some(inst), n |-> n + 1]
             ELSE [ret |-> r, g |-> cur, n |-> n + 1]
    ELSE [ret |-> Ok(cur[1]), g |-> cur, n |-> n]

\* str(e) of the ValueError validate_api_key raises
CredentialMessage ==
    "ANTHROPIC_API_KEY not found. "
    \o "Set it in environment or add to keychain: "
    \o "security add-generic-password -U -a \"$USER\" "
    \o "-s ANTHROPIC_API_KEY -w 'sk-ant-...'"

\* A faulty validate_api_key: the check is skipped.
validate_api_key_skipped(s) == Ok(None)

\* Settings.validate_api_key()
validate_api_key(s) ==
    IF s.anthropic_api_key = ""
    THEN Raised([kind |-> "ValueError", msg |-> CredentialMessage])
    ELSE Ok(None)

-----------------------------------------------------------------------------
(* client.py: AgentClient.                                                 *)

\* AgentClient._default_system_prompt()
default_system_prompt ==
    "You are a helpful AI assistant powered by Claude.\n\n"
    \o "You can help with:\n- Answering questions\n- Analyzing information\n"
    \o "- Writing and reviewing content\n- Problem-solving\n\n"
    \o "Be concise, accurate, and helpful in your responses."

\* A faulty AgentClientInit: the Settings default takes precedence over the
\* caller's override.
AgentClientInitDefaultFirst(s, system_prompt, model, max_turns, cwd) ==
    [_settings |-> s,
     system_prompt |-> default_system_prompt,
     model |-> IF s.model # "" THEN s.model ELSE model[1],
     max_turns |-> IF s.max_turns # 0 \/ max_turns = None THEN s.max_turns
                   ELSE max_turns[1],
     cwd |-> cwd]

\* AgentClient.__init__ once get_settings() has returned s: `x or default`
\* takes the default for None and for every falsy x ("" and 0).
AgentClientInit(s, system_prompt, model, max_turns, cwd) ==
    [_settings |-> s,
     system_prompt |-> IF TruthyStr(system_prompt) THEN system_prompt[1]
                       ELSE default_system_prompt,
     model |-> IF TruthyStr(model) THEN model[1] ELSE s.model,
     max_turns |-> IF TruthyInt(max_turns) THEN max_turns[1] ELSE s.max_turns,
     cwd |-> cwd]

\* AgentClient._get_options()
get_options(c) ==
    [system_prompt |-> c.system_prompt,
     model |-> c.model,
     max_turns |-> c.max_turns,
     allowed_tools |-> c._settings.allowed_tools,
     disallowed_tools |-> c._settings.disallowed_tools,
     cwd |-> c.cwd]

(* The SDK's message types, as far as query() inspects them.               *)
TextBlock(text) == [type |-> "TextBlock", text |-> text]
ToolUseBlock == [type |-> "ToolUseBlock", id |-> "t1", name |-> "Read"]
AssistantMessage(content) == [type |-> "AssistantMessage", content |-> content]
ResultMessage(result) == [type |-> "ResultMessage", result |-> result]
SystemMessage == [type |-> "SystemMessage", subtype |-> "init"]

HasAttr(m, name) == name \in DOMAIN m

\* repr() of a content block (a dataclass)
ReprBlock(b) ==
    IF b.type = "TextBlock" THEN "TextBlock(text='" \o b.text \o "')"
    ELSE "ToolUseBlock(id='" \o b.id \o "', name='" \o b.name \o "', input={})"

RECURSIVE ReprItems(_)
ReprItems(blocks) ==
    IF blocks = <<>> THEN ""
    ELSE IF Len(blocks) = 1 THEN ReprBlock(blocks[1])
    ELSE ReprBlock(Head(blocks)) \o ", " \o ReprItems(Tail(blocks))

\* str(last_message.result): the result is an Optional[str]
StrResult(result) == IF result = None THEN "None" ELSE result[1]
\* str(last_message.content): the content is a list of blocks
StrContent(content) == "[" \o ReprItems(content) \o "]"
\* str(last_message) for a message with neither attribute
StrMessage(m) == m.type \o "(subtype='" \o m.subtype \o "', data={})"

\* The tail of AgentClient.query: the answer extracted from the drained list.
ExtractFinal(msgs) ==
    IF msgs # <<>>
    THEN LET last_message == msgs[Len(msgs)]
         IN  IF HasAttr(last_message, "result")
             THEN StrResult(last_message.result)
             ELSE IF HasAttr(last_message, "content")
             THEN StrContent(last_message.content)
             ELSE StrMessage(last_message)
    ELSE "No response generated."

\* A faulty AppendMessage: the list is shared by all calls in flight.
AppendMessageShared(lists, t, m) ==
    [u \in DOMAIN lists |-> Append(lists[u], m)]

\* messages.append(message) inside call t
AppendMessage(lists, t, m) == [lists EXCEPT ![t] = Append(@, m)]

\* A faulty StreamFailure: the failure is swallowed and the events received
\* so far are reported as the answer.
StreamFailureSwallowed(msgs, e) == Ok(ExtractFinal(msgs))

\* An exception raised by sdk_query while the stream is drained: nothing in
\* query() catches it, so the call raises it.
StreamFailure(msgs, e) == Raised(e)

-----------------------------------------------------------------------------
(* main.py: the /query handler.                                            *)

\* The classes `except ValueError` catches: ValueError and its subclasses.
ValueErrorClasses == {"ValueError", "UnicodeDecodeError", "JSONDecodeError"}

\* The two except clauses of the handler.
HandlerExcept(e) ==
    IF e.kind \in ValueErrorClasses
    THEN [status |-> 500, detail |-> e.msg]
    ELSE [status |-> 500, detail |-> "Query failed: " \o e.kind \o ": " \o e.msg]

\* QueryResponse(result=result, model=request.model or settings.model)
HandlerResponse(r, s, result) ==
    [status |-> 200,
     result |-> result,
     model |-> IF TruthyStr(r.model) THEN r.model[1] ELSE s.model]

\* What the handler answers once the call has ended with outcome o; a call
\* made through the library has no handler.  hs is the handler's `settings`.
Respond(r, hs, o) ==
    IF r.via # "http" THEN None
    ELSE IF o.ok THEN Some(HandlerResponse(r, hs[1], o.v))
    ELSE Some(HandlerExcept(o.e))

-----------------------------------------------------------------------------
(* The calls.  A call runs without suspension from its start to the first  *)
(* read of the event stream, and then from one read to the next: the       *)
(* `async for` is the only place where query() awaits.                     *)

Tasks == DOMAIN pc

\* The call ends: its outcome is recorded and the handler (if any) answers.
Finish(t, r, hs, o) ==
    /\ pc' = [pc EXCEPT ![t] = "done"]
    /\ outcome' = [outcome EXCEPT ![t] = Some(o)]
    /\ response' = [response EXCEPT ![t] = Respond(r, hs, o)]

\* A request arrives (via = "http": the /query handler runs get_settings(),
\* AgentClient(system_prompt, model) and client.query(prompt)) or the library
\* is used directly (via = "lib": AgentClient(...) and client.query(prompt)).
\* query() validates the credential, builds the options and calls sdk_query.
QueryStart(t, r) ==
    /\ pc[t] = "idle"
    /\ req' = [req EXCEPT ![t] = r]
    /\ LET first == IF r.via = "http"
                    THEN get_settings(g_settings, env, loads)
                    ELSE [ret |-> Ok(None), g |-> g_settings, n |-> loads]
           second == get_settings(first.g, env, first.n)
           hs == IF r.via = "http" /\ first.ret.ok THEN Some(first.ret.v) ELSE None
       IN  IF ~first.ret.ok
           THEN /\ g_settings' = first.g
                /\ loads' = first.n
                /\ h_settings' = [h_settings EXCEPT ![t] = hs]
                /\ Finish(t, r, hs, first.ret)
                /\ UNCHANGED <<client, options, sessions>>
           ELSE IF ~second.ret.ok
           THEN /\ g_settings' = second.g
                /\ loads' = second.n
                /\ h_settings' = [h_settings EXCEPT ![t] = hs]
                /\ Finish(t, r, hs, second.ret)
                /\ UNCHANGED <<client, options, sessions>>
           ELSE LET c == AgentClientInit(second.ret.v, r.system_prompt, r.model,
                                         IF r.via = "http" THEN None ELSE r.max_turns,
                                         IF r.via = "http" THEN None ELSE r.cwd)
                    v == validate_api_key(c._settings)
                IN  /\ g_settings' = second.g
                    /\ loads' = second.n
                    /\ h_settings' = [h_settings EXCEPT ![t] = hs]
                    /\ client' = [client EXCEPT ![t] = Some(c)]
                    /\ IF ~v.ok
                       THEN /\ Finish(t, r, hs, v)
                            /\ UNCHANGED <<options, sessions>>
                       ELSE /\ options' = [options EXCEPT ![t] = Some(get_options(c))]
                            /\ sessions' = [sessions EXCEPT ![t] = @ + 1]
                            /\ pc' = [pc EXCEPT ![t] = "streaming"]
                            /\ UNCHANGED <<outcome, response>>
    /\ UNCHANGED <<env, sent, fault, messages>>

\* The runtime yields the next event m of call t's stream; the loop body
\* appends it.  maxLen bounds the length of the stream.
StreamNext(t, m, maxLen) ==
    /\ pc[t] = "streaming"
    /\ Len(sent[t]) < maxLen
    /\ sent' = [sent EXCEPT ![t] = Append(@, m)]
    /\ messages' = AppendMessage(messages, t, m)
    /\ UNCHANGED <<env, g_settings, loads, pc, req, client, options, sessions,
                   fault, h_settings, outcome, response>>

\* The stream of call t ends: query() returns the extracted answer.
StreamEnd(t) ==
    /\ pc[t] = "streaming"
    /\ Finish(t, req[t], h_settings[t], Ok(ExtractFinal(messages[t])))
    /\ UNCHANGED <<env, g_settings, loads, req, client, options, sessions, sent,
                   fault, messages, h_settings>>

\* The runtime raises e instead of yielding the next event of call t.
StreamRaise(t, e) ==
    /\ pc[t] = "streaming"
    /\ fault' = [fault EXCEPT ![t] = Some(e)]
    /\ Finish(t, req[t], h_settings[t], StreamFailure(messages[t], e))
    /\ UNCHANGED <<env, g_settings, loads, req, client, options, sessions, sent,
                   messages, h_settings>>

\* The environment of the process changes.
EnvChange(e) ==
    /\ e # env
    /\ env' = e
    /\ UNCHANGED <<g_settings, loads, pc, req, client, options, sessions, sent,
                   fault, messages, h_settings, outcome, response>>

-----------------------------------------------------------------------------
(* Inputs.                                                                 *)

Env(key, model, max_turns, port) ==
    [ANTHROPIC_API_KEY |-> key, CLAUDE_MODEL |-> model, MAX_TURNS |-> max_turns,
     PORT |-> port, HOST |-> None]

Request(via, system_prompt, model, max_turns) ==
    [via |-> via, prompt |-> "hello", system_prompt |-> system_prompt,
     model |-> model, max_turns |-> max_turns, cwd |-> None]

\* The environment of a working deployment and the plain request.
GoodEnv == Env(Some("sk-ant-1"), None, None, None)
PlainRequest == Request("http", None, None, None)

\* Events of the single-call specification: results with an absent, an empty
\* and a non-empty value, contents with text and non-text blocks, and an
\* event of another kind.
Events ==
    {ResultMessage(None), ResultMessage(Some("")), ResultMessage(Some("FINAL")),
     AssistantMessage(<<TextBlock("A")>>), AssistantMessage(<<TextBlock("B")>>),
     AssistantMessage(<<TextBlock("A"), TextBlock("B")>>),
     AssistantMessage(<<TextBlock("A"), ToolUseBlock>>),
     AssistantMessage(<<ToolUseBlock>>),
     SystemMessage}

\* Failures of the runtime: one that is no ValueError, one that is a
\* subclass of ValueError and a plain ValueError.
Failures ==
    {[kind |-> "ProcessError", msg |-> "Command failed with exit code 1"],
     [kind |-> "UnicodeDecodeError", msg |-> "invalid start byte"],
     [kind |-> "ValueError", msg |-> "bad value"]}

\* Environments and requests of the configuration specification.
EnvsConfig ==
    {Env(k, m, mt, p) :
        k \in {None, Some(""), Some("sk-ant-1")},
        m \in {None, Some("claude-haiku")},
        mt \in {None, Some(<<"5">>), Some(<<"0">>), Some(<<"a", "b", "c">>)},
        p \in {None, Some(<<"x">>)}}

RequestsConfig ==
    {Request("http", sp, m, None) :
        sp \in {None, Some(""), Some("Be terse.")},
        m \in {None, Some(""), Some("claude-opus")}}
    \cup
    {Request("lib", sp, m, mt) :
        sp \in {None, Some("Be terse.")},
        m \in {None, Some("claude-opus")},
        mt \in {None, Some(0), Some(3)}}

EventsConfig == {ResultMessage(Some("FINAL"))}

\* Environments and requests of the singleton specification: two that load
\* into different Settings and one whose MAX_TURNS is no number.
EnvsSettings ==
    {GoodEnv,
     Env(Some("sk-ant-1"), Some("claude-haiku"), Some(<<"5">>), None),
     Env(Some("sk-ant-1"), None, Some(<<"a", "b", "c">>), None)}

RequestsSettings == {PlainRequest, Request("lib", None, None, None)}

\* Environments, requests and events of the concurrent specification.
EnvsConc == {GoodEnv, Env(Some("sk-ant-1"), Some("claude-haiku"), Some(<<"5">>), None)}

RequestsConc == {PlainRequest}

EventsConc == {AssistantMessage(<<TextBlock("B")>>), ResultMessage(Some("FINAL"))}

FailuresConc == {[kind |-> "ProcessError", msg |-> "Command failed with exit code 1"]}

-----------------------------------------------------------------------------
(* Specifications.                                                         *)

\* The state after import: no Settings yet, no call started.
InitOver(tasks, envs) ==
    /\ env \in envs
    /\ g_settings = None
    /\ loads = 0
    /\ pc = [t \in tasks |-> "idle"]
    /\ req = [t \in tasks |-> None]
    /\ client = [t \in tasks |-> None]
    /\ options = [t \in tasks |-> None]
    /\ sessions = [t \in tasks |-> 0]
    /\ sent = [t \in tasks |-> <<>>]
    /\ fault = [t \in tasks |-> None]
    /\ messages = [t \in tasks |-> <<>>]
    /\ h_settings = [t \in tasks |-> None]
    /\ outcome = [t \in tasks |-> None]
    /\ response = [t \in tasks |-> None]

\* One call with a present credential, every event stream up to MaxStream.
InitGateway == InitOver({1}, {GoodEnv})
NextGateway ==
    \/ QueryStart(1, PlainRequest)
    \/ \E m \in Events : StreamNext(1, m, MaxStream)
    \/ StreamEnd(1)
    \/ \E e \in Failures : StreamRaise(1, e)
SpecGateway == InitGateway /\ [][NextGateway]_vars

\* One call, every environment and every request.
InitConfig == InitOver({1}, EnvsConfig)
NextConfig ==
    \/ \E r \in RequestsConfig : QueryStart(1, r)
    \/ \E m \in EventsConfig : StreamNext(1, m, MaxStreamConfig)
    \/ StreamEnd(1)
    \/ \E e \in Failures : StreamRaise(1, e)
SpecConfig == InitConfig /\ [][NextConfig]_vars

\* NumTasks calls through the handler or the library, in an environment that
\* changes between and during the calls.
InitSettings == InitOver(1..NumTasks, EnvsSettings)
NextSettings ==
    \/ \E t \in Tasks, r \in RequestsSettings : QueryStart(t, r)
    \/ \E t \in Tasks, m \in EventsConfig : StreamNext(t, m, MaxStreamConfig)
    \/ \E t \in Tasks : StreamEnd(t)
    \/ \E t \in Tasks, e \in FailuresConc : StreamRaise(t, e)
    \/ \E e \in EnvsSettings : EnvChange(e)
SpecSettings == InitSettings /\ [][NextSettings]_vars

\* NumTasks calls interleaved at every stream read, in a changing environment.
Init == InitOver(1..NumTasks, EnvsConc)
Next ==
    \/ \E t \in Tasks, r \in RequestsConc : QueryStart(t, r)
    \/ \E t \in Tasks, m \in EventsConc : StreamNext(t, m, MaxStreamConc)
    \/ \E t \in Tasks : StreamEnd(t)
    \/ \E t \in Tasks, e \in FailuresConc : StreamRaise(t, e)
    \/ \E e \in EnvsConc : EnvChange(e)
Spec == Init /\ [][Next]_vars

-----------------------------------------------------------------------------
(* Properties of the reduction of an event stream (SpecGateway).           *)

Returned(t) == outcome[t] # None /\ outcome[t][1].ok
Failed(t) == outcome[t] # None /\ ~outcome[t][1].ok
Answer(t) == outcome[t][1].v
HasCredential(t) == client[t] # None /\ client[t][1]._settings.anthropic_api_key # ""

IsResult(m) == HasAttr(m, "result")
IsContent(m) == HasAttr(m, "content")
IsOther(m) == ~IsResult(m) /\ ~IsContent(m)
IsText(b) == b.type = "TextBlock"

\* The values of the result events of a stream that carry a non-empty value.
ResultValues(stream) ==
    {stream[i].result[1] :
        i \in {j \in 1..Len(stream) : IsResult(stream[j]) /\ TruthyStr(stream[j].result)}}

\* The texts of the text segments of a stream, in arrival order.
RECURSIVE TextsOf(_)
TextsOf(stream) ==
    IF stream = <<>> THEN <<>>
    ELSE (IF IsContent(Head(stream)) THEN SelectSeq(Head(stream).content, IsText)
          ELSE <<>>) \o TextsOf(Tail(stream))

\* C1: with a non-empty prompt and a present credential, query never returns
\* the empty string.
C1_NeverReturnsEmpty ==
    \A t \in Tasks :
        (Returned(t) /\ HasCredential(t) /\ req[t].prompt # "") => Answer(t) # ""

\* C2: when the stream holds a result event with a non-empty value, query
\* returns that value, wherever the result event stands in the stream.
C2_ResultWinsAnywhere ==
    \A t \in Tasks :
        (Returned(t) /\ ResultValues(sent[t]) # {}) => Answer(t) \in ResultValues(sent[t])

\* C3: for a non-empty stream without a result event, query returns exactly
\* the text of the last text segment of the stream.
C3_LastTextWins ==
    \A t \in Tasks :
        (/\ Returned(t)
         /\ sent[t] # <<>>
         /\ \A i \in 1..Len(sent[t]) : ~IsResult(sent[t][i])
         /\ TextsOf(sent[t]) # <<>>)
        => Answer(t) = TextsOf(sent[t])[Len(TextsOf(sent[t]))].text

\* C9: query returns for a stream what it returns for the stream with the
\* events of other kinds removed.
C9_OtherEventsIgnored ==
    \A t \in Tasks :
        Returned(t) =>
            Answer(t) = ExtractFinal(SelectSeq(sent[t], LAMBDA m : ~IsOther(m)))

\* C10: a call with a present credential opens exactly one session and never
\* a second one; a failure raised while the stream is drained ends the call
\* with that failure and with no answer; a call that has ended has either
\* returned an answer or raised an error.
C10_OneSessionNoRetry ==
    \A t \in Tasks :
        /\ sessions[t] <= 1
        /\ (HasCredential(t) /\ pc[t] # "idle") => sessions[t] = 1
        /\ fault[t] # None => (pc[t] = "done" /\ outcome[t] = Some(Raised(fault[t][1])))
        /\ (pc[t] = "done") <=> (outcome[t] # None)
        /\ Returned(t) => (fault[t] = None /\ Answer(t) = ExtractFinal(sent[t]))

\* A call that received events and then failed.
C10_Witness ==
    \E t \in Tasks :
        /\ HasCredential(t) /\ sessions[t] = 1 /\ Len(sent[t]) >= 2
        /\ fault[t] # None /\ Failed(t)

-----------------------------------------------------------------------------
(* Properties of the configuration and of the handler (SpecConfig).        *)

MissingCredential == [kind |-> "ValueError", msg |-> CredentialMessage]

\* C4: with an absent credential the Settings and the AgentClient are still
\* constructed (a construction fails only on a malformed number, never on
\* the credential), and query raises the ValueError of validate_api_key
\* before sdk_query is called: no options built, no session, no event.
C4_NoCredentialNoSession ==
    \A t \in Tasks :
        /\ (Failed(t) /\ client[t] = None) => outcome[t][1].e # MissingCredential
        /\ (client[t] # None /\ ~HasCredential(t)) =>
              /\ pc[t] = "done"
              /\ outcome[t] = Some(Raised(MissingCredential))
              /\ sessions[t] = 0
              /\ options[t] = None
              /\ sent[t] = <<>>

\* A call made without a credential: Settings and client exist, query raised.
C4_Witness ==
    \E t \in Tasks :
        /\ env.ANTHROPIC_API_KEY = None
        /\ g_settings # None /\ client[t] # None
        /\ Failed(t) /\ sessions[t] = 0

\* The precedence of one override, as the claim states it (supplied means
\* not None) and as amended (supplied means not None and not empty / zero).
UsesOverride(effective, supplied, override, default) ==
    effective = IF supplied THEN override[1] ELSE default

\* C5 as stated: an explicit override is used whenever one is supplied.
C5_SuppliedOverrideUsed ==
    \A t \in Tasks :
        client[t] # None =>
            LET r == req[t]
                c == client[t][1]
            IN  /\ UsesOverride(c.system_prompt, r.system_prompt # None,
                                r.system_prompt, default_system_prompt)
                /\ UsesOverride(c.model, r.model # None, r.model, c._settings.model)
                /\ UsesOverride(c.max_turns, r.max_turns # None, r.max_turns,
                                c._settings.max_turns)

\* C5 as amended: a non-empty (max-turns: non-zero) override is used; an
\* omitted, empty or zero one gives the Settings default (model, max-turns)
\* or the built-in system prompt; the options handed to sdk_query carry the
\* effective values, and the handler reports the effective model.
C5_TruthyOverrideUsed ==
    \A t \in Tasks :
        /\ client[t] # None =>
            LET r == req[t]
                c == client[t][1]
            IN  /\ UsesOverride(c.system_prompt, TruthyStr(r.system_prompt),
                                r.system_prompt, default_system_prompt)
                /\ UsesOverride(c.model, TruthyStr(r.model), r.model,
                                c._settings.model)
                /\ UsesOverride(c.max_turns, TruthyInt(r.max_turns), r.max_turns,
                                c._settings.max_turns)
                /\ c._settings = g_settings[1]
                /\ options[t] # None =>
                      /\ options[t][1].system_prompt = c.system_prompt
                      /\ options[t][1].model = c.model
                      /\ options[t][1].max_turns = c.max_turns
        /\ (response[t] # None /\ response[t][1].status = 200) =>
              response[t][1].model = options[t][1].model

\* An answered request with a model override in an environment that sets
\* another default model.
C5_Witness ==
    \E t \in Tasks :
        /\ response[t] # None /\ response[t][1].status = 200
        /\ req[t].model = Some("claude-opus")
        /\ req[t].system_prompt = Some("")
        /\ env.CLAUDE_MODEL = Some("claude-haiku")
        /\ response[t][1].model = "claude-opus"

\* C8: the handler's detail is the bare message exactly for the
\* missing-credential error; every other failure is reported as
\* "Query failed: <kind>: <message>".
C8_ErrorClassesDistinguished ==
    \A t \in Tasks :
        (Failed(t) /\ response[t] # None) =>
            LET e == outcome[t][1].e
            IN  response[t][1].detail =
                    IF e = MissingCredential THEN e.msg
                    ELSE "Query failed: " \o e.kind \o ": " \o e.msg

-----------------------------------------------------------------------------
(* Properties of the singleton (SpecSettings) and of concurrent calls       *)
(* (Spec).                                                                 *)

\* C6 as stated: after the first get_settings() call the environment is
\* never read again.
C6_EnvironmentReadOnce == loads <= 1

\* C6 as amended: once a get_settings() call has returned, the instance it
\* created is the singleton for good.  The singleton was created by the last
\* read of the environment (so no read followed it), and every Settings a
\* handler or an AgentClient holds is that one instance, whatever the
\* environment has become.
C6_CachedAfterFirstReturn ==
    /\ g_settings # None => g_settings[1].id = loads
    /\ \A t \in Tasks :
        /\ client[t] # None =>
              (g_settings # None /\ client[t][1]._settings = g_settings[1])
        /\ h_settings[t] # None => h_settings[t] = g_settings

\* Two calls hold the singleton while the environment has moved on to values
\* a fresh read would turn into different Settings.
C6_Witness ==
    \E t, u \in Tasks :
        /\ t # u /\ pc[t] = "done" /\ client[t] # None /\ client[u] # None
        /\ SettingsLoad(env).ok
        /\ SettingsLoad(env).v.model # g_settings[1].model

\* The per-call state of call t.
CallState(t) ==
    <<req[t], client[t], options[t], sessions[t], messages[t], fault[t],
      h_settings[t], outcome[t], response[t]>>

\* C7: every call has its own session and its own list, which holds exactly
\* the events of its own stream; its outcome is the one its own stream
\* determines; a step of one call leaves the state of every other call and
\* the environment alone; all calls see the one Settings instance.
C7_CallsIsolated ==
    /\ [](\A t \in Tasks :
            /\ messages[t] = sent[t]
            /\ sessions[t] <= 1
            /\ pc[t] = "streaming" => sessions[t] = 1
            /\ Returned(t) => Answer(t) = ExtractFinal(sent[t])
            /\ fault[t] # None => outcome[t] = Some(Raised(fault[t][1]))
            /\ client[t] # None => client[t][1]._settings = g_settings[1])
    /\ [][/\ \A t \in Tasks :
                (pc'[t] = pc[t] /\ sent'[t] = sent[t]) => CallState(t)' = CallState(t)
          /\ (pc' # pc \/ sent' # sent) => env' = env]_vars

\* Two calls in flight at once with different events, a third state of the
\* interleaving being a call that has already answered from its own stream.
C7_Witness ==
    \E t, u \in Tasks :
        /\ t # u
        /\ pc[t] = "streaming" /\ pc[u] = "streaming"
        /\ Len(messages[t]) = 1 /\ Len(messages[u]) = 2
        /\ messages[t][1] # messages[u][1]

====
